---- MODULE Spec2Model ----
(***************************************************************************)
(* A model of update_fng_btc.py: the daily job that fetches the Fear &     *)
(* Greed index and the BTC price, merges them, appends the merged row to   *)
(* fear_greed_btc_data.csv and pushes it to a Dune table, plus the one-off *)
(* import of the csv into the table.                                       *)
(*                                                                         *)
(* Texts are modelled by their fields: the text "2023-11-14" is the tuple  *)
(* <<2023, 11, 14>>, "2023-11-14 22:13:20" is <<2023, 11, 14, 22, 13, 20>>,*)
(* a numeric string such as "72" is its digit sequence <<7, 2>>.  An epoch *)
(* in milliseconds does not fit the checker's integers, so it is kept as   *)
(* [k |-> whole seconds, r |-> remaining milliseconds].                    *)
(***************************************************************************)
EXTENDS Integers, Sequences, FiniteSets, TLC

\* ---------------------------------------------------------------- bounds
\* Rows the ledger may hold before the scheduler stops starting runs.
MaxRows == 3
\* The longest ledger the import is run on, in batches.
MaxBatches == 3

\* ------------------------------------------------------ program constants
\* range(3) in both fetchers.
Retries == 3
\* time.sleep(10) after a failed attempt.
RetryDelay == 10
\* seconds per day, used by the calendar conversions of pandas.
SecPerDay == 86400
\* batch_size of import_historical_data.
batch_size == 1000
\* time.sleep(1) after each batch.
BatchPause == 1

Procs == {1, 2}

VARIABLES
    csv,            \* fear_greed_btc_data.csv: [exists, hasHeader, rows]
    table_exists,   \* whether rekahbeee.fng_btc_data_api exists at Dune
    sink,           \* records Dune accepted with status 200
    api_key,        \* os.environ.get('DUNE_API_KEY') is set, per process
    pc,             \* where each process is
    attempt,        \* loop variable of the running fetcher
    fng_df,         \* result of fetch_fng_data
    btc_df,         \* result of fetch_btc_data
    d,              \* the merged frame
    existing_data,  \* timestamp texts read from the csv
    historical_df,  \* rows import_historical_data read from the csv
    batch_i,        \* loop variable i of import_historical_data
    import_log,     \* the external actions of import_historical_data
    log,            \* the external actions of the current run, in order
    prev,           \* the frames the run before fetched, if it appended a row
    csv0            \* the csv as it was when the current run started

importVars == <<historical_df, batch_i, import_log>>

vars == <<csv, table_exists, sink, api_key, pc, attempt, fng_df, btc_df, d,
          existing_data, historical_df, batch_i,
          import_log, log, prev, csv0>>

\* ------------------------------------------------------- pure conversions

RECURSIVE ParseInt(_)
\* str -> int, as Series.astype(int) does for a digit string.
ParseInt(s) ==
    IF s = <<>> THEN 0 ELSE 10 * ParseInt(SubSeq(s, 1, Len(s) - 1)) + s[Len(s)]

\* Days since the epoch to <<year, month, day>> (proleptic Gregorian).
CivilFromDays(z) ==
    LET zz  == z + 719468
        era == zz \div 146097
        doe == zz - era * 146097
        yoe == (doe - doe \div 1460 + doe \div 36524 - doe \div 146096) \div 365
        doy == doe - (365 * yoe + yoe \div 4 - yoe \div 100)
        mp  == (5 * doy + 2) \div 153
        dd  == doy - (153 * mp + 2) \div 5 + 1
        mm  == IF mp < 10 THEN mp + 3 ELSE mp - 9
        yy  == yoe + era * 400 + (IF mm <= 2 THEN 1 ELSE 0)
    IN  <<yy, mm, dd>>

\* pd.to_datetime(x, unit='s'): an instant with no sub-second part.
to_datetime_s(s) == [sec |-> s, ms |-> 0]

\* pd.to_datetime(x, unit='ms').
to_datetime_ms(m) == [sec |-> m.k, ms |-> m.r]

\* Timestamp.strftime('%Y-%m-%d').
strftime_Ymd(t) == CivilFromDays(t.sec \div SecPerDay)

\* How DataFrame.to_csv writes a datetime column holding the one value t:
\* the date alone when the value is a midnight, date and time otherwise.
to_csv_datetime(t) ==
    LET tod == t.sec % SecPerDay
        hms == <<tod \div 3600, (tod % 3600) \div 60, tod % 60>>
    IN  IF tod = 0 /\ t.ms = 0 THEN CivilFromDays(t.sec \div SecPerDay)
        ELSE IF t.ms = 0 THEN CivilFromDays(t.sec \div SecPerDay) \o hms
        ELSE CivilFromDays(t.sec \div SecPerDay) \o hms \o <<t.ms>>

\* ------------------------------------------------------------ the sources

\* value, value_classification and timestamp strings of the sentiment source.
FngValue == <<7, 2>>
FngClass == "Greed"
\* "1699920000" is 2023-11-14 00:00:00, "1700000000" is 2023-11-14 22:13:20,
\* "1700006400" is 2023-11-15 00:00:00.
FngTimestamps ==
    { <<1,6,9,9,9,2,0,0,0,0>>, <<1,7,0,0,0,0,0,0,0,0>>, <<1,7,0,0,0,0,6,4,0,0>> }

FngEntry(ts) ==
    [value |-> FngValue, value_classification |-> FngClass, timestamp |-> ts]

\* The JSON bodies a 200 response of api.alternative.me may carry: a
\* well-formed one, one without 'data', and ones whose entry lacks
\* 'timestamp' or 'value'.
FngBodies ==
    { [has_data |-> TRUE, has_timestamp |-> TRUE, has_value |-> TRUE,
       entry |-> FngEntry(ts)] : ts \in FngTimestamps }
    \cup
    { [has_data |-> FALSE, has_timestamp |-> TRUE, has_value |-> TRUE,
       entry |-> FngEntry(<<1,7,0,0,0,0,0,0,0,0>>)],
      [has_data |-> TRUE, has_timestamp |-> FALSE, has_value |-> TRUE,
       entry |-> FngEntry(<<1,7,0,0,0,0,0,0,0,0>>)],
      [has_data |-> TRUE, has_timestamp |-> TRUE, has_value |-> FALSE,
       entry |-> FngEntry(<<1,7,0,0,0,0,0,0,0,0>>)] }

\* BTC price 34521.17, in hundredths.
BtcPrice == 34521 * 100 + 17
Ms(k, r) == [k |-> k, r |-> r]
PricePoint(k, r) == [t |-> Ms(k, r), p |-> BtcPrice]

\* The JSON bodies a 200 response of api.coingecko.com may carry: 'prices'
\* lists of [epoch-milliseconds, price] pairs, or no 'prices' at all.
BtcBodies ==
    { [has_prices |-> TRUE, prices |-> ps] :
        ps \in { <<PricePoint(1699920000, 0), PricePoint(1700000000, 0)>>,
                 <<PricePoint(1700000000, 0)>>,
                 <<PricePoint(1700006400, 0)>>,
                 <<>> } }
    \cup { [has_prices |-> FALSE, prices |-> <<>>] }

\* ------------------------------------------------------------ data frames
\* A frame is the sequence of its rows; the index is the field timestamp.

\* fetch_fng_data, lines 12-20: the frame built from a well-formed body.
FngFrame(body) ==
    << [timestamp |-> to_datetime_s(ParseInt(body.entry.timestamp)),
        value |-> ParseInt(body.entry.value),
        value_classification |-> body.entry.value_classification] >>

\* frame.iloc[0:1]: the first row, or none of an empty frame.
FirstRow(frame) == IF Len(frame) = 0 THEN <<>> ELSE <<frame[1]>>

\* fetch_btc_data, lines 35-38: the frame of all prices, cut to iloc[0:1].
BtcFrame(body) ==
    FirstRow([i \in 1..Len(body.prices) |->
                [timestamp |-> to_datetime_ms(body.prices[i].t),
                 BTCUSD |-> body.prices[i].p]])

\* The index values two rows are joined on.
JoinKey(row) == row.timestamp

\* pd.merge(fng, btc, how='inner', left_index=True, right_index=True) of a
\* one-row left frame.
Merge(fng, btc) ==
    LET hit == SelectSeq(btc, LAMBDA b : JoinKey(b) = JoinKey(fng[1]))
    IN  [i \in 1..Len(hit) |->
           [timestamp |-> fng[1].timestamp,
            value |-> fng[1].value,
            value_classification |-> fng[1].value_classification,
            BTCUSD |-> hit[i].BTCUSD]]

\* ------------------------------------------------------------ the csv file

NoFile == [exists |-> FALSE, hasHeader |-> FALSE, rows |-> <<>>]

\* The line to_csv writes for a row of the merged frame after reset_index().
CsvLine(row) ==
    [timestamp |-> to_csv_datetime(row.timestamp),
     value |-> row.value,
     value_classification |-> row.value_classification,
     BTCUSD |-> row.BTCUSD]

\* pd.read_csv succeeds when the file has its header line.
Readable(f) == f.exists /\ f.hasHeader

\* existing_df['timestamp'].tolist(): the texts of the timestamp column.
TimestampColumn(f) == [i \in 1..Len(f.rows) |-> f.rows[i].timestamp]

\* x in list
In(x, list) == \E i \in 1..Len(list) : list[i] = x

\* d.index[0].strftime('%Y-%m-%d')
LatestDate(frame) == strftime_Ymd(frame[1].timestamp)

\* WritesHeader writing the header with every append.
WritesHeaderAlways(f) == TRUE

\* header=not os.path.exists(output_file), line 186.
WritesHeader(f) == ~f.exists

\* A header line that is not the first line of the file: read_csv takes it
\* for a data row whose cells are the column names; no cell is a date or a
\* number.
HeaderLine ==
    [timestamp |-> <<>>, value |-> -1,
     value_classification |-> "value_classification", BTCUSD |-> -1]

\* to_csv(output_file, mode='a', header=not os.path.exists(output_file)):
\* the header line, when asked for, then the rows, at the end of the file.
Appended(f, frame) ==
    [exists |-> TRUE,
     hasHeader |-> IF f.exists THEN f.hasHeader ELSE WritesHeader(f),
     rows |-> f.rows
                \o (IF f.exists /\ WritesHeader(f) THEN <<HeaderLine>>
                                                   ELSE <<>>)
                \o [i \in 1..Len(frame) |-> CsvLine(frame[i])]]

\* ------------------------------------------------------------- the payload
\* DataFrame.to_dict('records') boxes each cell in a Python value; py is its
\* Python type.
Cell(py, v) == [py |-> py, v |-> v]

\* d_reset.to_dict('records') of the merged frame: the timestamp column is
\* datetime64, so its cells are pandas Timestamp objects.
MergedRecords(frame) ==
    [i \in 1..Len(frame) |->
       [timestamp |-> Cell("Timestamp", frame[i].timestamp),
        value |-> Cell("int", frame[i].value),
        value_classification |-> Cell("str", frame[i].value_classification),
        BTCUSD |-> Cell("float", frame[i].BTCUSD)]]

\* batch_df.to_dict('records') of rows read back by read_csv: the timestamp
\* column holds the texts of the file.
CsvRecords(rows) ==
    [i \in 1..Len(rows) |->
       [timestamp |-> Cell("str", rows[i].timestamp),
        value |-> Cell("int", rows[i].value),
        value_classification |-> Cell("str", rows[i].value_classification),
        BTCUSD |-> Cell("float", rows[i].BTCUSD)]]

\* The Python types json.dumps encodes; requests.post(json=payload) raises
\* TypeError, which is no RequestException, for any other.
JsonTypes == {"str", "int", "float"}

JsonSerializable(records) ==
    \A i \in 1..Len(records) :
        \A f \in DOMAIN records[i] : records[i][f].py \in JsonTypes

\* ------------------------------------------------------------------ state

Ev(op, arg) == [op |-> op, arg |-> arg]

Halted == {"idle", "done", "crashed"}

NoRun == [fng |-> <<>>, btc |-> <<>>]

\* Whether the run whose log this is wrote its row to the csv.
DidAppend(l) == \E i \in 1..Len(l) : l[i].op = "to_csv" /\ l[i].arg = "ok"

Init ==
    /\ csv = NoFile
    /\ table_exists = FALSE
    /\ sink = {}
    /\ api_key = [p \in Procs |-> FALSE]
    /\ pc = [p \in Procs |-> "idle"]
    /\ attempt = [p \in Procs |-> 0]
    /\ fng_df = [p \in Procs |-> <<>>]
    /\ btc_df = [p \in Procs |-> <<>>]
    /\ d = [p \in Procs |-> <<>>]
    /\ existing_data = [p \in Procs |-> <<>>]
    /\ historical_df = [p \in Procs |-> <<>>]
    /\ batch_i = [p \in Procs |-> 0]
    /\ import_log = [p \in Procs |-> <<>>]
    /\ log = [p \in Procs |-> <<>>]
    /\ prev = NoRun
    /\ csv0 = [p \in Procs |-> csv]

\* The process starts: python update_fng_btc.py, with or without the key in
\* its environment, and with IMPORT_HISTORICAL 'true' (import) or not
\* (lines 221-228).  prev keeps what the run before fetched when that run
\* appended a row.
Begin(p, import) ==
    /\ pc[p] \in Halted
    /\ \E k \in BOOLEAN : api_key' = [api_key EXCEPT ![p] = k]
    /\ pc' = [pc EXCEPT ![p] = IF import THEN "import" ELSE "fng"]
    /\ attempt' = [attempt EXCEPT ![p] = 0]
    /\ fng_df' = [fng_df EXCEPT ![p] = <<>>]
    /\ btc_df' = [btc_df EXCEPT ![p] = <<>>]
    /\ d' = [d EXCEPT ![p] = <<>>]
    /\ existing_data' = [existing_data EXCEPT ![p] = <<>>]
    /\ historical_df' = [historical_df EXCEPT ![p] = <<>>]
    /\ batch_i' = [batch_i EXCEPT ![p] = 0]
    /\ import_log' = [import_log EXCEPT ![p] = <<>>]
    /\ log' = [log EXCEPT ![p] = <<>>]
    /\ prev' = IF DidAppend(log[p])
               THEN [fng |-> fng_df[p], btc |-> btc_df[p]]
               ELSE NoRun
    /\ csv0' = [csv0 EXCEPT ![p] = csv]
    /\ UNCHANGED <<csv, table_exists, sink>>

\* The scheduler starts the daily run, IMPORT_HISTORICAL unset, only when no
\* other run is in progress.
StartRun ==
    /\ \A q \in Procs : pc[q] \in Halted
    /\ Len(csv.rows) < MaxRows
    /\ Begin(1, FALSE)

\* The operator starts the one-off run with IMPORT_HISTORICAL=true.
StartImport ==
    /\ \A q \in Procs : pc[q] = "idle"
    /\ Begin(1, TRUE)

\* --------------------------------------------------------- fetch_fng_data

\* AfterFailure with one attempt too many.
AfterFailureFour(n, again) == IF n + 1 < Retries + 1 THEN again ELSE "done"

\* AfterFailure without the return of lines 155-156 and 158-159: the run
\* goes on to the price fetch after the last failed attempt.
AfterFailureGoesOn(n, again) == IF n + 1 < Retries THEN again ELSE "btc"

\* Where a fetcher stands after a failed attempt: the loop goes on, or after
\* the last attempt the fetcher returns None and update_dune_data returns.
AfterFailure(n, again) == IF n + 1 < Retries THEN again ELSE "done"

\* Lines 10-11, 21-25: a status other than 200, or a RequestException; both
\* print, sleep and go to the next attempt.
FngAttemptFails(p) ==
    /\ pc[p] = "fng"
    /\ \E kind \in {"status", "exception"} :
          log' = [log EXCEPT ![p] =
                    @ \o <<Ev("GET_fng", "failed"), Ev("sleep", RetryDelay)>>]
    /\ attempt' = [attempt EXCEPT ![p] = @ + 1]
    /\ pc' = [pc EXCEPT ![p] = AfterFailure(attempt[p], "fng")]
    /\ UNCHANGED <<csv, table_exists, sink, api_key, fng_df, btc_df, d,
                   existing_data, prev, csv0, importVars>>

\* What a 200 response with this body leads to: KeyError escapes ("crashed")
\* for a body without 'data' or an entry without 'value', None is returned
\* for an entry without 'timestamp'.
FngOutcome(body) ==
    IF ~body.has_data THEN "crashed"
    ELSE IF ~body.has_timestamp THEN "done"
    ELSE IF ~body.has_value THEN "crashed"
    ELSE "btc"

\* Lines 10-20: status 200.
FngOk(p) ==
    /\ pc[p] = "fng"
    /\ \E body \in FngBodies :
          /\ pc' = [pc EXCEPT ![p] = FngOutcome(body)]
          /\ fng_df' = [fng_df EXCEPT ![p] =
                          IF FngOutcome(body) = "btc" THEN FngFrame(body) ELSE @]
    /\ log' = [log EXCEPT ![p] = Append(@, Ev("GET_fng", "200"))]
    /\ attempt' = [attempt EXCEPT ![p] = 0]
    /\ UNCHANGED <<csv, table_exists, sink, api_key, btc_df, d,
                   existing_data, prev, csv0, importVars>>

\* --------------------------------------------------------- fetch_btc_data

\* Lines 33-34, 39-43.
BtcAttemptFails(p) ==
    /\ pc[p] = "btc"
    /\ \E kind \in {"status", "exception"} :
          log' = [log EXCEPT ![p] =
                    @ \o <<Ev("GET_btc", "failed"), Ev("sleep", RetryDelay)>>]
    /\ attempt' = [attempt EXCEPT ![p] = @ + 1]
    /\ pc' = [pc EXCEPT ![p] = AfterFailure(attempt[p], "btc")]
    /\ UNCHANGED <<csv, table_exists, sink, api_key, fng_df, btc_df, d,
                   existing_data, prev, csv0, importVars>>

\* AfterMerge without the d.empty return.
AfterMergeAlwaysOn(frame) == "read"

\* Where update_dune_data goes after the merge, lines 163-165.
AfterMerge(frame) == IF frame = <<>> THEN "done" ELSE "read"

\* Lines 33-38 and 161-165: status 200, then the merge.  A body without
\* 'prices' raises KeyError, which nothing catches.
BtcOk(p) ==
    /\ pc[p] = "btc"
    /\ \E body \in BtcBodies :
          IF ~body.has_prices
          THEN /\ pc' = [pc EXCEPT ![p] = "crashed"]
               /\ log' = [log EXCEPT ![p] = Append(@, Ev("GET_btc", "200"))]
               /\ UNCHANGED <<btc_df, d>>
          ELSE /\ btc_df' = [btc_df EXCEPT ![p] = BtcFrame(body)]
               /\ d' = [d EXCEPT ![p] = Merge(fng_df[p], BtcFrame(body))]
               /\ pc' = [pc EXCEPT ![p] =
                           AfterMerge(Merge(fng_df[p], BtcFrame(body)))]
               /\ log' = [log EXCEPT ![p] =
                            @ \o <<Ev("GET_btc", "200"), Ev("merge", "ok")>>]
    /\ attempt' = [attempt EXCEPT ![p] = 0]
    /\ UNCHANGED <<csv, table_exists, sink, api_key, fng_df,
                   existing_data, prev, csv0, importVars>>

\* ------------------------------------------------- the csv, lines 167-190

\* Line 179: the duplicate check of the day against the texts read.
AlreadyThere(frame, existing) == In(LatestDate(frame), existing)

\* AfterCheck uploading again a row that is already in the ledger.
AfterCheckUploadAgain(frame, existing) ==
    IF AlreadyThere(frame, existing) THEN "create" ELSE "append"

\* Where update_dune_data goes after the duplicate check, lines 178-181.
AfterCheck(frame, existing) ==
    IF AlreadyThere(frame, existing) THEN "done" ELSE "append"

\* Lines 169-181: no file, so nothing is read; or the file is read and its
\* timestamp column kept.  Then the duplicate check.
ReadCsv(p) ==
    /\ pc[p] = "read"
    /\ ~csv.exists \/ Readable(csv)
    /\ existing_data' = [existing_data EXCEPT ![p] =
                           IF csv.exists THEN TimestampColumn(csv) ELSE <<>>]
    /\ log' = [log EXCEPT ![p] =
                 IF csv.exists THEN Append(@, Ev("read_csv", "ok")) ELSE @]
    /\ pc' = [pc EXCEPT ![p] =
                AfterCheck(d[p], IF csv.exists THEN TimestampColumn(csv)
                                 ELSE <<>>)]
    /\ UNCHANGED <<csv, table_exists, sink, api_key, attempt, fng_df, btc_df,
                   d, prev, csv0, importVars>>

\* AfterReadError without the return of line 176: existing_data stays [].
AfterReadErrorGoesOn == "append"

\* Where update_dune_data goes when reading the csv raised, lines 174-176.
AfterReadError == "done"

\* Lines 174-176: read_csv or the column lookup raises (the file cannot be
\* opened, or it has no header line); the run returns.
ReadCsvError(p) ==
    /\ pc[p] = "read"
    /\ csv.exists
    /\ log' = [log EXCEPT ![p] = Append(@, Ev("read_csv", "error"))]
    /\ pc' = [pc EXCEPT ![p] = AfterReadError]
    /\ UNCHANGED <<csv, table_exists, sink, api_key, attempt, fng_df, btc_df,
                   d, existing_data, prev, csv0, importVars>>

\* AfterAppend without the return of line 190.
AfterAppendAlwaysOn(ok) == "create"

\* Where update_dune_data goes after to_csv: on to create_dune_table when it
\* returned, out of the function when it raised (lines 188-190).
AfterAppend(ok) == IF ok THEN "create" ELSE "done"

\* Lines 184-187: the row is appended, with the header when the file is new.
AppendCsv(p) ==
    /\ pc[p] = "append"
    /\ csv' = Appended(csv, d[p])
    /\ log' = [log EXCEPT ![p] = Append(@, Ev("to_csv", "ok"))]
    /\ pc' = [pc EXCEPT ![p] = AfterAppend(TRUE)]
    /\ UNCHANGED <<table_exists, sink, api_key, attempt, fng_df, btc_df, d,
                   existing_data, prev, csv0, importVars>>

\* Lines 188-190: to_csv raises because the file cannot be opened for append
\* (no permission, no space for a new file); nothing has been written.
AppendCsvError(p) ==
    /\ pc[p] = "append"
    /\ log' = [log EXCEPT ![p] = Append(@, Ev("to_csv", "error"))]
    /\ pc' = [pc EXCEPT ![p] = AfterAppend(FALSE)]
    /\ UNCHANGED <<csv, table_exists, sink, api_key, attempt, fng_df, btc_df,
                   d, existing_data, prev, csv0, importVars>>

\* --------------------------------------- create_dune_table, lines 48-91

\* HasKey without the check of line 50.
HasKeyUnchecked(p) == TRUE

\* Lines 49-52: whether create_dune_table goes on to its request.
HasKey(p) == api_key[p]

\* Lines 50-52 and 193-195: no key, False is returned before any request.
CreateNoKey(p) ==
    /\ pc[p] = "create"
    /\ ~HasKey(p)
    /\ pc' = [pc EXCEPT ![p] = "done"]
    /\ UNCHANGED <<csv, table_exists, sink, api_key, attempt, fng_df, btc_df,
                   d, existing_data, log, prev, csv0, importVars>>

\* The status codes a sink answer is drawn from.
Statuses == {200, 400, 409, 500}

\* What requests.post of line 79 can bring: a RequestException, or a
\* response with a status and a text that holds "already exists" or not.
\* Only an existing table is said to exist already.
CreateOutcomes(exists) ==
    {[raised |-> TRUE, status |-> 0, already |-> FALSE]}
        \cup {[raised |-> FALSE, status |-> s, already |-> a] :
                  s \in Statuses, a \in {x \in BOOLEAN : x => exists}}

\* CreateReturns taking every "already exists" answer for success.
CreateReturnsAnyStatus(r) ==
    /\ ~r.raised
    /\ (r.status = 200 \/ r.already)

\* Lines 78-91: the value create_dune_table returns for an outcome.
CreateReturns(r) ==
    /\ ~r.raised
    /\ (r.status = 200 \/ (r.status = 400 /\ r.already))

\* Lines 79-85 and 193: the request is answered and create_dune_table
\* returns True; the run goes on to the upload.  A 200 means the table is
\* there from now on.
CreateOk(p) ==
    /\ pc[p] = "create"
    /\ HasKey(p)
    /\ \E r \in CreateOutcomes(table_exists) :
          /\ CreateReturns(r)
          /\ log' = [log EXCEPT ![p] = Append(@, Ev("POST_create", r))]
          /\ table_exists' = (table_exists \/ r.status = 200)
    /\ pc' = [pc EXCEPT ![p] = "insert"]
    /\ UNCHANGED <<csv, sink, api_key, attempt, fng_df, btc_df, d,
                   existing_data, prev, csv0, importVars>>

\* Lines 86-91 and 193-195: another answer, or a RequestException; False is
\* returned and the run ends.
CreateFails(p) ==
    /\ pc[p] = "create"
    /\ HasKey(p)
    /\ \E r \in CreateOutcomes(table_exists) :
          /\ ~CreateReturns(r)
          /\ log' = [log EXCEPT ![p] = Append(@, Ev("POST_create", r))]
    /\ pc' = [pc EXCEPT ![p] = "done"]
    /\ UNCHANGED <<csv, table_exists, sink, api_key, attempt, fng_df, btc_df,
                   d, existing_data, prev, csv0, importVars>>

\* ------------------------------------------------ the upload, lines 197-219

\* The answers Dune may give to an insert: without the X-Dune-API-Key header
\* (requests drops a header whose value is None) it never answers 200.
InsertAnswers(p) == IF api_key[p] THEN {"200", "failed"} ELSE {"failed"}

\* Lines 209-219: the payload is built and posted.  requests encodes it with
\* json.dumps before anything is sent; a payload it cannot encode raises
\* TypeError out of requests.post, past the except clause of line 218, and
\* the process ends with a traceback.  An encodable payload is sent, and
\* whatever the answer the run ends.
InsertRow(p) ==
    /\ pc[p] = "insert"
    /\ LET payload == MergedRecords(d[p])
       IN  IF ~JsonSerializable(payload)
           THEN /\ pc' = [pc EXCEPT ![p] = "crashed"]
                /\ UNCHANGED <<log, sink>>
           ELSE /\ pc' = [pc EXCEPT ![p] = "done"]
                /\ \E answer \in InsertAnswers(p) :
                      /\ log' = [log EXCEPT ![p] =
                                   Append(@, Ev("POST_insert",
                                      [answer |-> answer, data |-> payload]))]
                      /\ sink' = IF answer = "200"
                                 THEN sink \cup {payload[i] : i \in 1..Len(payload)}
                                 ELSE sink
    /\ UNCHANGED <<csv, table_exists, api_key, attempt, fng_df, btc_df, d,
                   existing_data, prev, csv0, importVars>>

\* ------------------------------------- import_historical_data, lines 94-140

cycleVars ==
    <<attempt, fng_df, btc_df, d, existing_data, log, prev, csv0>>

Min(a, b) == IF a < b THEN a ELSE b

\* historical_df.iloc[n:n+batch_size]
Batch(rows, n) == SubSeq(rows, n + 1, Min(n + batch_size, Len(rows)))

\* NextBatch stepping one row too far.
NextBatchSkipping(n) == n + batch_size + 1

\* The next start of range(0, len(historical_df), batch_size) after n.
NextBatch(n) == n + batch_size

\* AfterBatch leaving the loop after the first batch.
AfterBatchStopping(rows, n) == "fng"

\* Where the process goes after a batch starting at n: the next batch, or,
\* the loop over, update_dune_data (line 228).
AfterBatch(rows, n) ==
    IF NextBatch(n) < Len(rows) THEN "import_batch" ELSE "fng"

\* Lines 101-103: no csv, the import returns.
ImportNoFile(p) ==
    /\ pc[p] = "import"
    /\ ~csv.exists
    /\ pc' = [pc EXCEPT ![p] = "fng"]
    /\ UNCHANGED <<csv, table_exists, sink, api_key, cycleVars, importVars>>

\* Lines 106-122: the csv is read; the loop starts unless it has no rows.
ImportRead(p) ==
    /\ pc[p] = "import"
    /\ Readable(csv)
    /\ historical_df' = [historical_df EXCEPT ![p] = csv.rows]
    /\ batch_i' = [batch_i EXCEPT ![p] = 0]
    /\ import_log' = [import_log EXCEPT ![p] = Append(@, Ev("read_csv", "ok"))]
    /\ pc' = [pc EXCEPT ![p] =
                IF Len(csv.rows) > 0 THEN "import_batch" ELSE "fng"]
    /\ UNCHANGED <<csv, table_exists, sink, api_key, cycleVars>>

\* Lines 139-140: read_csv raises; the import prints and returns.
ImportReadError(p) ==
    /\ pc[p] = "import"
    /\ csv.exists
    /\ import_log' = [import_log EXCEPT ![p] =
                        Append(@, Ev("read_csv", "error"))]
    /\ pc' = [pc EXCEPT ![p] = "fng"]
    /\ UNCHANGED <<csv, table_exists, sink, api_key, cycleVars,
                   historical_df, batch_i>>

\* Lines 122-137: one batch is posted, whatever api_key is; the answer is
\* printed, the loop sleeps and goes on.  A payload json.dumps cannot encode
\* raises TypeError, which line 139 catches: the import returns.
ImportBatch(p) ==
    /\ pc[p] = "import_batch"
    /\ batch_i[p] < Len(historical_df[p])
    /\ LET payload == CsvRecords(Batch(historical_df[p], batch_i[p]))
       IN  IF ~JsonSerializable(payload)
           THEN /\ pc' = [pc EXCEPT ![p] = "fng"]
                /\ UNCHANGED <<sink, batch_i, import_log>>
           ELSE /\ \E answer \in InsertAnswers(p) :
                      /\ import_log' = [import_log EXCEPT ![p] =
                            @ \o << Ev("POST_insert",
                                       [answer |-> answer, data |-> payload]),
                                    Ev("sleep", BatchPause) >>]
                      /\ sink' = IF answer = "200"
                                 THEN sink \cup {payload[k] : k \in 1..Len(payload)}
                                 ELSE sink
                /\ batch_i' = [batch_i EXCEPT ![p] = NextBatch(batch_i[p])]
                /\ pc' = [pc EXCEPT ![p] = AfterBatch(historical_df[p],
                                                   batch_i[p])]
    /\ UNCHANGED <<csv, table_exists, api_key, cycleVars, historical_df>>

\* ------------------------------------------------------------------- runs

Step(p) ==
    \/ FngAttemptFails(p)
    \/ FngOk(p)
    \/ BtcAttemptFails(p)
    \/ BtcOk(p)
    \/ ReadCsv(p)
    \/ ReadCsvError(p)
    \/ AppendCsv(p)
    \/ AppendCsvError(p)
    \/ CreateNoKey(p)
    \/ CreateOk(p)
    \/ CreateFails(p)
    \/ InsertRow(p)

ImportStep(p) ==
    \/ ImportNoFile(p)
    \/ ImportRead(p)
    \/ ImportReadError(p)
    \/ ImportBatch(p)

Next ==
    \/ StartRun
    \/ \E p \in Procs : Step(p)

Spec == Init /\ [][Next]_vars

\* The insert request of process p is answered 200.
InsertAccepted(p) ==
    /\ InsertRow(p)
    /\ sink' # sink

\* The scheduler keeps starting the daily run, a started run runs on to its
\* end, and a sink that is asked again and again answers with success.
FairSpec ==
    /\ Spec
    /\ WF_vars(StartRun)
    /\ WF_vars(\E p \in Procs : Step(p))
    /\ SF_vars(\E p \in Procs : CreateOk(p))
    /\ SF_vars(\E p \in Procs : InsertAccepted(p))

\* ------------------------------------------------ the import on its own
\* The import is run on ledgers the daily runs have left behind: a header
\* and one row per day, dates only.  Their lengths surround the multiples
\* of batch_size.

ImportSizes ==
    {1, batch_size - 1, batch_size, batch_size + 1}
    \cup {k * batch_size : k \in 1..MaxBatches}
    \cup {k * batch_size + 500 : k \in 1..(MaxBatches - 1)}

\* The row the daily run of the j-th day, counted from 2023-11-14, writes.
DayLine(j) ==
    CsvLine([timestamp |-> to_datetime_s((19675 + j - 1) * SecPerDay),
             value |-> j % 101,
             value_classification |-> FngClass,
             BTCUSD |-> BtcPrice + j])

LedgerOf(n) ==
    [exists |-> TRUE, hasHeader |-> TRUE, rows |-> [j \in 1..n |-> DayLine(j)]]

InitImport ==
    /\ csv \in {NoFile} \cup {LedgerOf(n) : n \in ImportSizes}
    /\ table_exists = FALSE
    /\ sink = {}
    /\ api_key = [p \in Procs |-> FALSE]
    /\ pc = [p \in Procs |-> "idle"]
    /\ attempt = [p \in Procs |-> 0]
    /\ fng_df = [p \in Procs |-> <<>>]
    /\ btc_df = [p \in Procs |-> <<>>]
    /\ d = [p \in Procs |-> <<>>]
    /\ existing_data = [p \in Procs |-> <<>>]
    /\ historical_df = [p \in Procs |-> <<>>]
    /\ batch_i = [p \in Procs |-> 0]
    /\ import_log = [p \in Procs |-> <<>>]
    /\ log = [p \in Procs |-> <<>>]
    /\ prev = NoRun
    /\ csv0 = [p \in Procs |-> csv]

NextImport ==
    \/ StartImport
    \/ \E p \in Procs : ImportStep(p)

SpecImport == InitImport /\ [][NextImport]_vars

\* The regular runs, started on whatever file is in the working directory:
\* none, a ledger of one row, or a file this program did not write: an empty
\* one, or data lines without the header line that names the 'timestamp'
\* column.

FilesFound ==
    { NoFile,
      LedgerOf(1),
      [exists |-> TRUE, hasHeader |-> FALSE, rows |-> <<>>],
      [exists |-> TRUE, hasHeader |-> FALSE, rows |-> <<DayLine(1)>>] }

InitAnyFile ==
    /\ csv \in FilesFound
    /\ table_exists = FALSE
    /\ sink = {}
    /\ api_key = [p \in Procs |-> FALSE]
    /\ pc = [p \in Procs |-> "idle"]
    /\ attempt = [p \in Procs |-> 0]
    /\ fng_df = [p \in Procs |-> <<>>]
    /\ btc_df = [p \in Procs |-> <<>>]
    /\ d = [p \in Procs |-> <<>>]
    /\ existing_data = [p \in Procs |-> <<>>]
    /\ historical_df = [p \in Procs |-> <<>>]
    /\ batch_i = [p \in Procs |-> 0]
    /\ import_log = [p \in Procs |-> <<>>]
    /\ log = [p \in Procs |-> <<>>]
    /\ prev = NoRun
    /\ csv0 = [p \in Procs |-> csv]

SpecAnyFile == InitAnyFile /\ [][Next]_vars

\* Two regular runs at once: while the run of process 1 is under way a
\* second process is started, by hand or by a second trigger of the
\* scheduler.  Nothing in the program locks the csv.

StartOverlap ==
    /\ pc[1] \notin Halted
    /\ Len(csv.rows) < MaxRows
    /\ Begin(2, FALSE)

NextRace ==
    \/ StartRun
    \/ StartOverlap
    \/ \E p \in Procs : Step(p)

SpecRace == Init /\ [][NextRace]_vars

\* ============================================================== properties

SinkOps == {"POST_create", "POST_insert"}

Count(l, op) == Cardinality({k \in 1..Len(l) : l[k].op = op})

Has(l, op) == \E k \in 1..Len(l) : l[k].op = op

\* The calendar day of a timestamp text of the csv.
DayOfText(text) == SubSeq(text, 1, 3)

\* n repetitions of the event pair a failed attempt leaves in the log.
RECURSIVE FailedAttempts(_, _)
FailedAttempts(op, n) ==
    IF n = 0 THEN <<>>
    ELSE FailedAttempts(op, n - 1)
         \o <<Ev(op, "failed"), Ev("sleep", RetryDelay)>>

\* Both fetches of process p returned a frame in the current run.
BothFetched(p) == fng_df[p] # <<>> /\ btc_df[p] # <<>>

SameDay(p) ==
    strftime_Ymd(fng_df[p][1].timestamp) = strftime_Ymd(btc_df[p][1].timestamp)

\* C1: a run that fetches what the run before it fetched, when that run
\* appended the merged row, finds the date in the ledger: it makes no ledger
\* write, no table-create request and no insert request.
C1_SecondRunWritesNothing ==
    (prev # NoRun /\ fng_df[1] = prev.fng /\ btc_df[1] = prev.btc)
        => /\ ~Has(log[1], "to_csv")
           /\ ~Has(log[1], "POST_create")
           /\ ~Has(log[1], "POST_insert")
           /\ csv = csv0[1]

\* C2: no two rows of the ledger have the same calendar day.
C2_DateUnique ==
    \A a, b \in 1..Len(csv.rows) :
        a # b => DayOfText(csv.rows[a].timestamp) # DayOfText(csv.rows[b].timestamp)

\* The ledger row a record accepted by the sink carries.
RowOfRecord(r) ==
    [timestamp |-> IF r.timestamp.py = "Timestamp"
                   THEN to_csv_datetime(r.timestamp.v) ELSE r.timestamp.v,
     value |-> r.value.v,
     value_classification |-> r.value_classification.v,
     BTCUSD |-> r.BTCUSD.v]

\* The n-th row of the ledger has reached the sink.
Delivered(n) == \E r \in sink : RowOfRecord(r) = csv.rows[n]

\* C3 as claimed: while the daily run keeps being started with the key set
\* and keeps fetching and merging a row, every row in the ledger eventually
\* reaches the sink.
C3_EventuallyDelivered ==
    (/\ []<><<StartRun>>_vars
     /\ []<><<\E p \in Procs : ReadCsv(p)>>_vars
     /\ [](\A p \in Procs : pc[p] = "create" => api_key[p]))
        => \A n \in 1..MaxRows : [](Len(csv.rows) >= n => <>Delivered(n))

\* C3 as amended: a run asks the sink only for the row it has itself
\* appended; a run that finds the day in the ledger, or appends nothing for
\* another reason, ends without a sink request, and the rows that were in
\* the ledger when it started stay as they were.
C3_UploadsOnlyOwnRow ==
    \A p \in Procs :
        /\ (pc[p] \in {"create", "insert"} \/ Has(log[p], "POST_create")
              \/ Has(log[p], "POST_insert"))
              => /\ Len(csv.rows) = Len(csv0[p].rows) + 1
                 /\ csv.rows[Len(csv.rows)] = CsvLine(d[p][1])
        /\ \A k \in 1..Len(log[p]) :
              log[p][k].op = "POST_insert"
                  => log[p][k].arg.data = MergedRecords(d[p])
        /\ \A n \in 1..Len(csv0[p].rows) : csv.rows[n] = csv0[p].rows[n]

\* C3 witness: the run before appended a row that never reached the sink;
\* this run fetched the same, found the day in the ledger and ended.
C3_Witness ==
    /\ prev # NoRun
    /\ fng_df[1] = prev.fng
    /\ btc_df[1] = prev.btc
    /\ pc[1] = "done"
    /\ AlreadyThere(d[1], existing_data[1])
    /\ ~Has(log[1], "POST_create")
    /\ ~Delivered(Len(csv.rows))

\* C4: a request to the sink is issued only after this run's append to the
\* ledger succeeded; when the append raised, the run ends without any.
C4_SinkOnlyAfterAppend ==
    \A p \in Procs :
        /\ \A k \in 1..Len(log[p]) :
              log[p][k].op \in SinkOps
                  => \E j \in 1..(k - 1) : log[p][j] = Ev("to_csv", "ok")
        /\ pc[p] \in {"create", "insert"} => DidAppend(log[p])
        /\ (\E j \in 1..Len(log[p]) : log[p][j] = Ev("to_csv", "error"))
              => /\ pc[p] = "done"
                 /\ \A k \in 1..Len(log[p]) : log[p][k].op \notin SinkOps

\* C4 witness: a run whose append raised has ended.
C4_Witness ==
    /\ pc[1] = "done"
    /\ Len(log[1]) > 0
    /\ log[1][Len(log[1])] = Ev("to_csv", "error")

\* C5: neither fetcher issues more than 3 requests; a fetch whose attempts all
\* fail issues exactly 3, each followed by the 10 second sleep, and then
\* returns None, which ends the run.
C5_RetryBound ==
    \A p \in Procs :
        /\ Count(log[p], "GET_fng") <= Retries
        /\ Count(log[p], "GET_btc") <= Retries
        /\ pc[p] = "fng" => /\ attempt[p] < Retries
                            /\ log[p] = FailedAttempts("GET_fng", attempt[p])
        /\ (pc[p] = "done" /\ Has(log[p], "GET_fng")
              /\ \A k \in 1..Len(log[p]) : log[p][k] # Ev("GET_fng", "200"))
              => log[p] = FailedAttempts("GET_fng", Retries)
        /\ pc[p] = "btc" =>
              /\ attempt[p] < Retries
              /\ \E n \in 0..(Retries - 1) :
                    log[p] = FailedAttempts("GET_fng", n)
                             \o <<Ev("GET_fng", "200")>>
                             \o FailedAttempts("GET_btc", attempt[p])
        /\ (pc[p] = "done" /\ Has(log[p], "GET_btc")
              /\ \A k \in 1..Len(log[p]) : log[p][k] # Ev("GET_btc", "200"))
              => \E n \in 0..(Retries - 1) :
                    log[p] = FailedAttempts("GET_fng", n)
                             \o <<Ev("GET_fng", "200")>>
                             \o FailedAttempts("GET_btc", Retries)

\* C5 witness: the sentiment fetch has failed three times and the run ended.
C5_Witness ==
    /\ pc[1] = "done"
    /\ log[1] = FailedAttempts("GET_fng", Retries)

\* C6: records fetched for the same calendar day are joined into exactly one
\* row carrying their value, classification and price.
C6_JoinOnSameDay ==
    \A p \in Procs :
        (BothFetched(p) /\ SameDay(p))
            => /\ Len(d[p]) = 1
               /\ d[p][1].value = fng_df[p][1].value
               /\ d[p][1].value_classification = fng_df[p][1].value_classification
               /\ d[p][1].BTCUSD = btc_df[p][1].BTCUSD

\* C7: records fetched for different calendar days are not joined; the run
\* ends without reading or writing the ledger and without a sink request.
C7_DifferentDayNoEffect ==
    \A p \in Procs :
        (BothFetched(p) /\ ~SameDay(p))
            => /\ d[p] = <<>>
               /\ pc[p] = "done"
               /\ csv = csv0[p]
               /\ \A k \in 1..Len(log[p]) :
                     log[p][k].op \notin {"read_csv", "to_csv"} \cup SinkOps

\* C7 witness: a run that fetched two different days has ended.
C7_Witness ==
    /\ BothFetched(1)
    /\ ~SameDay(1)
    /\ pc[1] = "done"

\* C8: without DUNE_API_KEY a run with a new merged row still appends it,
\* create_dune_table returns False without a request, and the run ends
\* without an insert request.
C8_NoKeyNoSinkRequest ==
    \A p \in Procs :
        ~api_key[p] =>
            /\ \A k \in 1..Len(log[p]) : log[p][k].op \notin SinkOps
            /\ pc[p] # "insert"
            /\ (pc[p] = "create" \/ (pc[p] = "done" /\ DidAppend(log[p])))
                  => /\ Len(csv.rows) = Len(csv0[p].rows) + 1
                     /\ csv.rows[Len(csv.rows)] = CsvLine(d[p][1])

\* C8 witness: a run without the key appended its row and has ended.
C8_Witness ==
    /\ ~api_key[1]
    /\ pc[1] = "done"
    /\ DidAppend(log[1])
    /\ csv.rows[Len(csv.rows)] = CsvLine(d[1][1])

\* The insert requests of an import so far, in order.
Posts(p) == SelectSeq(import_log[p], LAMBDA e : e.op = "POST_insert")

\* C9: without DUNE_API_KEY import_historical_data issues no insert request.
C9_ImportNoKeyNoInsert ==
    \A p \in Procs : ~api_key[p] => Len(Posts(p)) = 0

\* ceil(n / m)
CeilDiv(n, m) == (n + m - 1) \div m

RECURSIVE Concat(_)
Concat(ss) == IF ss = <<>> THEN <<>> ELSE Head(ss) \o Concat(Tail(ss))

\* The import of process p has read the csv.
ImportHasRead(p) ==
    \E k \in 1..Len(import_log[p]) : import_log[p][k] = Ev("read_csv", "ok")

\* The import of process p has read the csv and finished its loop.
ImportOver(p) == pc[p] = "fng" /\ ImportHasRead(p)

\* C10: the import of a ledger of n rows posts ceil(n / 1000) batches in
\* ledger order, batch k carrying rows k*1000 .. min((k+1)*1000, n) - 1; the
\* batches together are the ledger, each row once; every batch but the last
\* has 1000 rows; a sleep follows each batch; the ledger is left as it was.
C10_Batches ==
    \A p \in Procs :
        LET n == Len(csv.rows)
            posts == Posts(p)
        IN  /\ csv = csv0[p]
            /\ \A k \in 1..Len(posts) :
                  posts[k].arg.data =
                      CsvRecords(SubSeq(csv.rows, (k - 1) * batch_size + 1,
                                        Min(k * batch_size, n)))
            /\ \A k \in 1..(Len(posts) - 1) : Len(posts[k].arg.data) = batch_size
            /\ \A j \in 1..Len(import_log[p]) :
                  import_log[p][j].op = "POST_insert"
                      => /\ j < Len(import_log[p])
                         /\ import_log[p][j + 1] = Ev("sleep", BatchPause)
            /\ ImportOver(p) =>
                  /\ Len(posts) = CeilDiv(n, batch_size)
                  /\ Concat([k \in 1..Len(posts) |-> posts[k].arg.data])
                        = CsvRecords(csv.rows)

\* C10 witness: the import of 2500 rows is over, in batches of 1000, 1000, 500.
C10_Witness ==
    /\ ImportOver(1)
    /\ Len(csv.rows) = 2 * batch_size + 500
    /\ Len(Posts(1)) = 3
    /\ Len(Posts(1)[1].arg.data) = batch_size
    /\ Len(Posts(1)[2].arg.data) = batch_size
    /\ Len(Posts(1)[3].arg.data) = 500

\* C11: a batch whose insert fails (non-200 answer or transport exception)
\* does not end the import: while rows remain the next batch is attempted;
\* no batch is posted twice; and once the loop is over the number of insert
\* requests is ceil(n / 1000) whatever the answers were.
C11_FailedBatchIsolated ==
    \A p \in Procs :
        LET n == Len(historical_df[p])
            posts == Posts(p)
        IN  /\ \A k \in 1..Len(posts) :
                  (posts[k].arg.answer = "failed" /\ k * batch_size < n)
                      => (Len(posts) > k \/ pc[p] = "import_batch")
            /\ \A j, k \in 1..Len(posts) :
                  j # k => posts[j].arg.data # posts[k].arg.data
            /\ batch_i[p] = Len(posts) * batch_size
            /\ ImportOver(p) => Len(posts) = CeilDiv(n, batch_size)

\* C11 witness: an import of 2500 rows is over; its first batch failed, its
\* second was accepted, its third failed, and all three were posted once.
C11_Witness ==
    /\ ImportOver(1)
    /\ Len(historical_df[1]) = 2 * batch_size + 500
    /\ Len(Posts(1)) = 3
    /\ Posts(1)[1].arg.answer = "failed"
    /\ Posts(1)[2].arg.answer = "200"
    /\ Posts(1)[3].arg.answer = "failed"

\* create_dune_table has returned True in the run of process p: the run is
\* at, or past, the upload of lines 197-219.
Provisioned(p) ==
    \/ pc[p] = "insert"
    \/ (pc[p] \in {"done", "crashed"} /\ Has(log[p], "POST_create")
            /\ log[p][Len(log[p])].op = "POST_insert")
    \/ (pc[p] = "crashed" /\ Has(log[p], "POST_create"))

\* C12 as stated: create_dune_table returns success exactly when the
\* answer is HTTP 200 or an "already exists" error response, whatever the
\* status of that error response.
C12_SuccessOnAnyAlreadyExists ==
    \A p \in Procs : \A k \in 1..Len(log[p]) :
        log[p][k].op = "POST_create" =>
            LET r == log[p][k].arg
            IN  Provisioned(p) <=> (~r.raised /\ (r.status = 200 \/ r.already))

\* C12: create_dune_table returns success exactly when the answer is HTTP
\* 200, or HTTP 400 with "already exists" in its text; after any other
\* answer, or a transport exception, it returns failure and the run ends
\* with no insert request; a run asks for the table at most once.
C12_CreateOutcome ==
    \A p \in Procs :
        /\ Count(log[p], "POST_create") <= 1
        /\ \A k \in 1..Len(log[p]) :
              log[p][k].op = "POST_create" =>
                  LET r == log[p][k].arg
                      ok == /\ ~r.raised
                            /\ (r.status = 200 \/ (r.status = 400 /\ r.already))
                  IN  /\ Provisioned(p) <=> ok
                      /\ ~ok => /\ pc[p] = "done"
                                /\ k = Len(log[p])
                                /\ ~Has(log[p], "POST_insert")
                      /\ r.status = 200 => table_exists

\* C12 witness: the table exists from an earlier run, the sink answers 400
\* "already exists", and the run is at its upload.
C12_Witness ==
    /\ pc[1] = "insert"
    /\ table_exists
    /\ log[1][Len(log[1])] =
          Ev("POST_create", [raised |-> FALSE, status |-> 400, already |-> TRUE])

\* C13: a run issues at most one insert request; a run that fetched both
\* sources, joined a row, appended it and got True from create_dune_table
\* issues exactly one, carrying that row, and ends normally whatever the
\* answer, the appended row still the last line of the ledger.
C13_ExactlyOneInsert ==
    \A p \in Procs :
        /\ Count(log[p], "POST_insert") <= 1
        /\ (Provisioned(p) /\ pc[p] # "insert") =>
              /\ pc[p] = "done"
              /\ Count(log[p], "POST_insert") = 1
              /\ log[p][Len(log[p])].op = "POST_insert"
              /\ log[p][Len(log[p])].arg.data = MergedRecords(d[p])
              /\ csv.rows[Len(csv.rows)] = CsvLine(d[p][1])

\* C14: no exception escapes a run: whatever the sources, the ledger and
\* the sink do, no process ends with a traceback.
C14_NoExceptionEscapes ==
    \A p \in Procs : pc[p] # "crashed"

\* The fetch operations.
FetchOps == {"GET_fng", "GET_btc"}

\* C15: once a fetch is answered 200 it issues no further request, and it
\* returns to its caller, with the decoded record or, a required field
\* missing, with None: the run goes on or ends normally, and does not stop
\* inside the fetch.
C15_OkEndsFetch ==
    \A p \in Procs :
        /\ \A k \in 1..Len(log[p]) :
              (log[p][k].op \in FetchOps /\ log[p][k].arg = "200")
                  => \A j \in (k + 1)..Len(log[p]) :
                         log[p][j].op # log[p][k].op
        /\ ~(/\ pc[p] = "crashed"
              /\ Len(log[p]) > 0
              /\ log[p][Len(log[p])].op \in FetchOps)

C17_UnreadableStops ==
    \A p \in Procs :
        /\ Has(log[p], "read_csv") /\ log[p][Len(log[p])].op # "read_csv"
              => \A k \in 1..Len(log[p]) : log[p][k] # Ev("read_csv", "error")
        /\ (Len(log[p]) > 0 /\ log[p][Len(log[p])] = Ev("read_csv", "error"))
              => /\ pc[p] = "done"
                 /\ csv = csv0[p]
                 /\ ~Has(log[p], "to_csv")
                 /\ \A k \in 1..Len(log[p]) : log[p][k].op \notin SinkOps
        /\ (pc[p] # "idle" /\ csv0[p].exists /\ ~Readable(csv0[p]))
              => /\ csv = csv0[p]
                 /\ pc[p] \notin {"append", "create", "insert"}
                 /\ ~Has(log[p], "to_csv")
                 /\ \A k \in 1..Len(log[p]) : log[p][k].op \notin SinkOps

\* C17 witness: a run fetched both sources and joined a row, found a file
\* without the header line, failed to read it and has ended.
C17_Witness ==
    /\ pc[1] = "done"
    /\ BothFetched(1)
    /\ d[1] # <<>>
    /\ csv.exists /\ ~csv.hasHeader /\ Len(csv.rows) = 1
    /\ log[1][Len(log[1])] = Ev("read_csv", "error")

\* The place of a step in update_dune_data; a sleep belongs to a fetch.
Rank(op) ==
    CASE op = "GET_fng" -> 1
      [] op = "GET_btc" -> 2
      [] op = "merge" -> 3
      [] op = "read_csv" -> 4
      [] op = "to_csv" -> 5
      [] op = "POST_create" -> 6
      [] op = "POST_insert" -> 7
      [] OTHER -> 0

\* Step k of log l comes after an event e.
Before(l, k, e) == \E j \in 1..(k - 1) : l[j] = e

\* Step k of log l comes after a step op.
BeforeOp(l, k, op) == \E j \in 1..(k - 1) : l[j].op = op

\* C18: a run takes its steps in the order sentiment fetch, price fetch,
\* join, ledger read, ledger append, table-create, insert, each of the last
\* five at most once, and a step is taken only when the steps before it
\* succeeded (the read is skipped when there is no file).  No price request
\* follows a failed sentiment fetch; unless both fetches succeeded the
\* ledger is neither read nor written and no sink request is issued.
C18_StepOrder ==
    \A p \in Procs :
        LET l == log[p]
        IN  /\ \A j, k \in 1..Len(l) :
                  (j < k /\ Rank(l[j].op) > 0 /\ Rank(l[k].op) > 0)
                      => /\ Rank(l[j].op) <= Rank(l[k].op)
                         /\ Rank(l[j].op) >= 3 => Rank(l[j].op) < Rank(l[k].op)
            /\ \A k \in 1..Len(l) :
                  /\ l[k].op = "GET_btc" => Before(l, k, Ev("GET_fng", "200"))
                  /\ l[k].op = "merge" =>
                        /\ k > 1
                        /\ l[k - 1] = Ev("GET_btc", "200")
                  /\ l[k].op = "read_csv" =>
                        /\ BeforeOp(l, k, "merge")
                        /\ d[p] # <<>>
                  /\ l[k].op = "to_csv" =>
                        /\ BeforeOp(l, k, "merge")
                        /\ d[p] # <<>>
                        /\ csv0[p].exists => l[k - 1] = Ev("read_csv", "ok")
                  /\ l[k].op = "POST_create" => l[k - 1] = Ev("to_csv", "ok")
                  /\ l[k].op = "POST_insert" =>
                        /\ l[k - 1].op = "POST_create"
                        /\ ~l[k - 1].arg.raised
                        /\ \/ l[k - 1].arg.status = 200
                           \/ l[k - 1].arg.status = 400 /\ l[k - 1].arg.already
            /\ pc[p] = "btc" => Before(l, Len(l) + 1, Ev("GET_fng", "200"))
            /\ pc[p] = "read" => l[Len(l)].op = "merge"
            /\ pc[p] = "append" => Rank(l[Len(l)].op) \in {3, 4}
            /\ pc[p] = "create" => l[Len(l)] = Ev("to_csv", "ok")
            /\ pc[p] = "insert" => l[Len(l)].op = "POST_create"
            /\ (pc[p] # "idle" /\ ~Before(l, Len(l) + 1, Ev("GET_fng", "200")))
                  => /\ csv = csv0[p]
                     /\ \A k \in 1..Len(l) : Rank(l[k].op) < 2
            /\ (pc[p] # "idle" /\ ~Before(l, Len(l) + 1, Ev("GET_btc", "200")))
                  => /\ csv = csv0[p]
                     /\ \A k \in 1..Len(l) : Rank(l[k].op) < 3
            /\ (pc[p] # "idle" /\ d[p] = <<>>)
                  => /\ csv = csv0[p]
                     /\ \A k \in 1..Len(l) : Rank(l[k].op) < 4

\* C18 witness: a run has taken every step up to the upload, in order:
\* both fetches, the join, the read of the ledger, the append, the
\* table-create answered 200.
C18_Witness ==
    /\ pc[1] = "insert"
    /\ Len(log[1]) = 6
    /\ log[1][1] = Ev("GET_fng", "200")
    /\ log[1][2] = Ev("GET_btc", "200")
    /\ log[1][3] = Ev("merge", "ok")
    /\ log[1][4] = Ev("read_csv", "ok")
    /\ log[1][5] = Ev("to_csv", "ok")
    /\ log[1][6].op = "POST_create"

\* Rows a and b of the ledger are the same line.
TwinRows(a, b) == a # b /\ csv.rows[a] = csv.rows[b]

\* C19: with the runs one after the other, the ledger never holds the row
\* of one date twice, the state two overlapping runs with the same
\* responses leave behind.
C19_SerializedNoTwinRows ==
    \A a, b \in 1..Len(csv.rows) : ~TwinRows(a, b)

\* With the runs one after the other a row written as a date alone, the
\* text of a midnight timestamp, is never in the ledger twice.  It holds of
\* Spec and not of SpecRace.
C19_NoMidnightTwins ==
    \A a, b \in 1..Len(csv.rows) :
        TwinRows(a, b) => Len(csv.rows[a].timestamp) > 3

\* The state of the race, reached under SpecRace: both processes found no
\* file, fetched the same midnight row, passed the check of line 179 and
\* appended; the ledger is that row twice.
C19_RaceTwinRows ==
    /\ \A p \in Procs : ~csv0[p].exists /\ DidAppend(log[p])
    /\ d[1] = d[2]
    /\ csv.rows = <<CsvLine(d[1][1]), CsvLine(d[2][1])>>
    /\ Len(csv.rows[1].timestamp) = 3

====
